---- MODULE Spec2Model ----
(***************************************************************************)
(* Model of distributions/losses.py: the composite losses over feature     *)
(* tensors of shape (batch, height, width, channel), the stateful          *)
(* CoWassLoss combiner (warmup_steps, curr_step) and the loss registry.    *)
(*                                                                         *)
(* Tensors hold exact rationals <<numerator, denominator>>; float32        *)
(* rounding of the tensor arithmetic is not modelled.  The float32 counter *)
(* curr_step keeps its width: adding 1 is exact only below 2^24.           *)
(***************************************************************************)
EXTENDS Integers, Sequences, FiniteSets, TLC

(***************************************************************************)
(* Bounds of the model.                                                    *)
(***************************************************************************)
\* entries of the input tensors range over 0..MaxVal
MaxVal == 1
\* number of CoWassLoss.call invocations explored
MaxCalls == 6
\* configured warmup_steps range over -1..MaxWarmup
MaxWarmup == 4

(***************************************************************************)
(* Exact rational arithmetic on pairs <<n, d>> with d > 0, in lowest terms. *)
(***************************************************************************)
Abs(x) == IF x < 0 THEN -x ELSE x

RECURSIVE GCD(_, _)
GCD(a, b) == IF b = 0 THEN a ELSE GCD(b, a % b)

Norm(n, d) ==
    LET g == GCD(Abs(n), Abs(d))
        s == IF d < 0 THEN -1 ELSE 1
    IN  <<(s * n) \div g, (s * d) \div g>>

Rat(n) == <<n, 1>>
Zero == Rat(0)
One == Rat(1)

RAdd(x, y) == Norm(x[1] * y[2] + y[1] * x[2], x[2] * y[2])
RSub(x, y) == Norm(x[1] * y[2] - y[1] * x[2], x[2] * y[2])
RMul(x, y) == Norm(x[1] * y[1], x[2] * y[2])
RDiv(x, y) == Norm(x[1] * y[2], x[2] * y[1])
RSq(x) == RMul(x, x)
RCube(x) == RMul(x, RMul(x, x))
RLe(x, y) == x[1] * y[2] <= y[1] * x[2]
RMin(x, y) == IF RLe(x, y) THEN x ELSE y
\* (x - y) ** 2
RSqDiff(x, y) == RSq(RSub(x, y))

\* sum of f[0] .. f[n-1]
RECURSIVE RSum(_, _)
RSum(f, n) == IF n = 0 THEN Zero ELSE RAdd(RSum(f, n - 1), f[n - 1])

(***************************************************************************)
(* Tensors: [shape |-> sequence of dimensions, val |-> index -> rational].  *)
(* An index is a sequence of 0-based positions, one per axis; axis k of     *)
(* the code is position k+1 of the sequence.                                *)
(***************************************************************************)
RECURSIVE Idx(_)
Idx(shape) ==
    IF shape = <<>> THEN {<<>>}
    ELSE {<<h>> \o t : h \in 0..(shape[1] - 1), t \in Idx(Tail(shape))}

Rank(t) == Len(t.shape)

Tensor(shape, f) == [shape |-> shape, val |-> f]

\* TensorFlow broadcasting of two shapes: right-aligned, dimensions equal or 1
PadShape(s, n) == [k \in 1..n |-> IF k <= n - Len(s) THEN 1 ELSE s[k - (n - Len(s))]]
MaxRank(s1, s2) == IF Len(s1) >= Len(s2) THEN Len(s1) ELSE Len(s2)
BroadcastOK(s1, s2) ==
    LET n == MaxRank(s1, s2)
        a == PadShape(s1, n)
        b == PadShape(s2, n)
    IN  \A k \in 1..n : a[k] = b[k] \/ a[k] = 1 \/ b[k] = 1
BroadcastShape(s1, s2) ==
    LET n == MaxRank(s1, s2)
        a == PadShape(s1, n)
        b == PadShape(s2, n)
    IN  [k \in 1..n |-> IF a[k] = 1 THEN b[k] ELSE a[k]]
\* the index of t that the index i of the broadcast result reads
BIndex(t, i) ==
    LET off == Len(i) - Rank(t)
    IN  [k \in 1..Rank(t) |-> IF t.shape[k] = 1 THEN 0 ELSE i[k + off]]

\* elementwise binary operation with broadcasting
Elementwise(F(_, _), t1, t2) ==
    LET shp == BroadcastShape(t1.shape, t2.shape)
    IN  Tensor(shp, [i \in Idx(shp) |-> F(t1.val[BIndex(t1, i)], t2.val[BIndex(t2, i)])])

TSub(t1, t2) == Elementwise(RSub, t1, t2)
TAdd(t1, t2) == Elementwise(RAdd, t1, t2)
TMul(t1, t2) == Elementwise(RMul, t1, t2)
TSqDiff(t1, t2) == Elementwise(RSqDiff, t1, t2)
TSq(t) == Tensor(t.shape, [i \in Idx(t.shape) |-> RSq(t.val[i])])
\* scalar * tensor
TScale(a, t) == Tensor(t.shape, [i \in Idx(t.shape) |-> RMul(a, t.val[i])])

IsZeroTensor(t) == \A i \in DOMAIN t.val : t.val[i] = Zero

\* tf.reduce_mean(t, axis=[1, 2], keepdims=True); raises when the rank is below 3
ReduceMeanRaises(t) == Rank(t) < 3
ReduceMean(t) ==
    LET H == t.shape[2]
        W == t.shape[3]
        shp == [t.shape EXCEPT ![2] = 1, ![3] = 1]
    IN  Tensor(shp, [i \in Idx(shp) |->
            RDiv(RSum([k \in 0..(H * W - 1) |->
                          t.val[[i EXCEPT ![2] = k \div W, ![3] = k % W]]], H * W),
                 Rat(H * W))])

\* tf.squeeze(t, axis=[1, 2]) of a tensor whose axes 1 and 2 have size 1
Squeeze12(t) ==
    LET n == Rank(t) - 2
        shp == [k \in 1..n |-> IF k = 1 THEN t.shape[1] ELSE t.shape[k + 2]]
    IN  Tensor(shp, [i \in Idx(shp) |->
            t.val[[k \in 1..Rank(t) |-> IF k = 1 THEN i[1]
                                        ELSE IF k <= 3 THEN 0 ELSE i[k - 2]]]])

\* tf.nn.moments(t, axes=[1, 2], keepdims=True): the mean and the population variance
MomentsMean(t) == ReduceMean(t)
MomentsVar(t) == ReduceMean(TSq(TSub(t, ReduceMean(t))))

\* tf.sort of the n samples f[0..n-1], ascending, as a sequence
RECURSIVE InsertSorted(_, _)
InsertSorted(x, seq) ==
    IF seq = <<>> THEN <<x>>
    ELSE IF RLe(x, Head(seq)) THEN <<x>> \o seq
    ELSE <<Head(seq)>> \o InsertSorted(x, Tail(seq))
RECURSIVE SortSamples(_, _)
SortSamples(f, n) == IF n = 0 THEN <<>> ELSE InsertSorted(f[n - 1], SortSamples(f, n - 1))

RECURSIVE RPow(_, _)
RPow(x, p) == IF p = 0 THEN One ELSE RMul(x, RPow(x, p - 1))
RAbs(x) == <<Abs(x[1]), x[2]>>

(***************************************************************************)
(* The two shared primitives imported from the distributions package       *)
(* (losses.py line 4).  Their code is not part of losses.py; they follow   *)
(* sections 4.2, 4.4 and 7 of the specification.                           *)
(***************************************************************************)
\* both primitives take two rank-4 tensors of one shape
PrimitiveRaises(t1, t2) == Rank(t1) # 4 \/ Rank(t2) # 4 \/ t1.shape # t2.shape

\* the samples of batch b, channel c over the H x W positions
Samples(t, b, c) ==
    LET W == t.shape[3]
    IN  [k \in 0..(t.shape[2] * W - 1) |-> t.val[<<b, k \div W, k % W, c>>]]

\* order-p transport distance per (batch, channel): mean p-th power of the
\* differences of the sorted samples.  The final p-th root is not taken: it
\* is monotone and fixes 0, and its value is irrational in general.
compute_wass_dist(y_true, y_pred, p) ==
    LET n == y_true.shape[2] * y_true.shape[3]
        shp == <<y_true.shape[1], y_true.shape[4]>>
    IN  Tensor(shp, [i \in Idx(shp) |->
            LET s1 == SortSamples(Samples(y_true, i[1], i[2]), n)
                s2 == SortSamples(Samples(y_pred, i[1], i[2]), n)
            IN  RDiv(RSum([k \in 0..(n - 1) |-> RPow(RAbs(RSub(s1[k + 1], s2[k + 1])), p)], n),
                     Rat(n))])

\* the Gram matrix entry of channels c, d: mean over the positions of x_c * x_d
Gram(t, b, c, d) ==
    LET n == t.shape[2] * t.shape[3]
        xc == Samples(t, b, c)
        xd == Samples(t, b, d)
    IN  RDiv(RSum([k \in 0..(n - 1) |-> RMul(xc[k], xd[k])], n), Rat(n))

\* raw second-moment distance per (batch, channel): mean over d of the
\* squared difference of the Gram entries (c, d)
compute_raw_m2_loss(y_true, y_pred) ==
    LET C == y_true.shape[4]
        shp == <<y_true.shape[1], C>>
    IN  Tensor(shp, [i \in Idx(shp) |->
            RDiv(RSum([d \in 0..(C - 1) |->
                          RSqDiff(Gram(y_true, i[1], i[2], d), Gram(y_pred, i[1], i[2], d))], C),
                 Rat(C))])

(***************************************************************************)
(* losses.py: the composite losses.  For each loss, XRaises says when the  *)
(* call raises and X is the value it returns otherwise.                    *)
(***************************************************************************)
\* mu1 - mu2 of lines 12, 25, 33, 57: the two means must broadcast
MeansRaise(y_true, y_pred) ==
    \/ ReduceMeanRaises(y_true)
    \/ ReduceMeanRaises(y_pred)
    \/ ~BroadcastOK(ReduceMean(y_true).shape, ReduceMean(y_pred).shape)

compute_covar_loss_raises(y_true, y_pred) ==
    \/ MeansRaise(y_true, y_pred)
    \/ PrimitiveRaises(y_true, y_pred)

\* compute_covar_loss with line 14 leaving y_pred uncentered
compute_covar_loss_pred_uncentered(y_true, y_pred) ==
    LET mu1 == ReduceMean(y_true)
        mu2 == ReduceMean(y_pred)
        mean_loss == Squeeze12(TSq(TSub(mu1, mu2)))
        centered_y1 == TSub(y_true, mu1)
        covar_loss == compute_raw_m2_loss(centered_y1, y_pred)
    IN  TAdd(mean_loss, covar_loss)

compute_covar_loss(y_true, y_pred) ==
    LET mu1 == ReduceMean(y_true)
        mu2 == ReduceMean(y_pred)
        mean_loss == Squeeze12(TSq(TSub(mu1, mu2)))
        centered_y1 == TSub(y_true, mu1)
        centered_y2 == TSub(y_pred, mu2)
        covar_loss == compute_raw_m2_loss(centered_y1, centered_y2)
    IN  TAdd(mean_loss, covar_loss)

FirstMomentRaises(y_true, y_pred) == MeansRaise(y_true, y_pred)
FirstMomentLoss(y_true, y_pred) ==
    LET mu1 == ReduceMean(y_true)
        mu2 == ReduceMean(y_pred)
    IN  TSq(TSub(mu1, mu2))

SecondMomentRaises(y_true, y_pred) == MeansRaise(y_true, y_pred)
SecondMomentLoss(y_true, y_pred) ==
    LET mu1 == MomentsMean(y_true)
        var1 == MomentsVar(y_true)
        mu2 == MomentsMean(y_pred)
        var2 == MomentsVar(y_pred)
    IN  TAdd(TSq(TSub(mu1, mu2)), TSq(TSub(var1, var2)))

CovarRaises(y_true, y_pred) == compute_covar_loss_raises(y_true, y_pred)
CovarLoss(y_true, y_pred) == compute_covar_loss(y_true, y_pred)

GramianRaises(y_true, y_pred) == PrimitiveRaises(y_true, y_pred)
GramianLoss(y_true, y_pred) == compute_raw_m2_loss(y_true, y_pred)

WassRaises(y_true, y_pred) == PrimitiveRaises(y_true, y_pred)
WassLoss(y_true, y_pred) == compute_wass_dist(y_true, y_pred, 2)

\* 1e-3 of lines 51-52
Epsilon == <<1, 1000>>

\* whether m1 * rsqrt(v1 + 1e-3)^3 = m2 * rsqrt(v2 + 1e-3)^3, decided without
\* the irrational square root (both sides have the sign of their m)
Sign(x) == IF x[1] > 0 THEN 1 ELSE IF x[1] < 0 THEN -1 ELSE 0
SkewEqual(m1, v1, m2, v2) ==
    IF m1 = Zero \/ m2 = Zero THEN m1 = m2
    ELSE IF v1 = v2 THEN m1 = m2
    ELSE /\ Sign(m1) = Sign(m2)
         /\ RMul(RSq(m1), RCube(RAdd(v2, Epsilon))) = RMul(RSq(m2), RCube(RAdd(v1, Epsilon)))

\* ThirdMomentLoss.call.  z = (y - mu) * rsqrt(var + 1e-3) and rsqrt(var + 1e-3)
\* is constant over the reduced axes, so skew = mean((y - mu)^3) * rsqrt(var + 1e-3)^3.
\* The value is kept as base + (skew1 - skew2)^2 with each skew held as the
\* pair (third central moment cm, var).
ThirdMomentRaises(y_true, y_pred) == MeansRaise(y_true, y_pred)
ThirdMomentLoss(y_true, y_pred) ==
    LET mu1 == MomentsMean(y_true)
        var1 == MomentsVar(y_true)
        mu2 == MomentsMean(y_pred)
        var2 == MomentsVar(y_pred)
        c1 == TSub(y_true, mu1)
        c2 == TSub(y_pred, mu2)
    IN  [base |-> TAdd(TSq(TSub(mu1, mu2)), TSq(TSub(var1, var2))),
         cm1 |-> ReduceMean(TMul(c1, TSq(c1))), var1 |-> var1,
         cm2 |-> ReduceMean(TMul(c2, TSq(c2))), var2 |-> var2]
\* the value of ThirdMomentLoss is 0 everywhere
ThirdMomentIsZero(v) ==
    /\ IsZeroTensor(v.base)
    /\ LET shp == BroadcastShape(v.cm1.shape, v.cm2.shape)
       IN  \A i \in Idx(shp) :
              SkewEqual(v.cm1.val[BIndex(v.cm1, i)], v.var1.val[BIndex(v.var1, i)],
                        v.cm2.val[BIndex(v.cm2, i)], v.var2.val[BIndex(v.var2, i)])

\* float32 counter: x + 1 is exact below 2^24 and rounds back to x at 2^24
F32Exact == 16777216
F32AddOne(x) == IF x < F32Exact THEN x + 1 ELSE x

\* get_alpha reading the counter after the increment of line 86
get_alpha_after_increment(warmup, curr) ==
    IF warmup <= 0 THEN One
    ELSE RMin(RDiv(Rat(curr + 1), Rat(warmup)), One)
\* get_alpha without the tf.minimum of line 76
get_alpha_unclamped(warmup, curr) ==
    IF warmup <= 0 THEN One
    ELSE RDiv(Rat(curr), Rat(warmup))
\* get_alpha whose test of line 72 misses warmup_steps = 0 and ramps over one step
get_alpha_ramp_when_disabled(warmup, curr) ==
    IF warmup < 0 THEN One
    ELSE RMin(RDiv(Rat(curr), Rat(IF warmup = 0 THEN 1 ELSE warmup)), One)

\* CoWassLoss.get_alpha on the values of the two counters
get_alpha(warmup, curr) ==
    IF warmup <= 0 THEN One
    ELSE RMin(RDiv(Rat(curr), Rat(warmup)), One)

\* CoWassLoss.call, lines 80-81 raise when either computation does
CoWassRaises(y_true, y_pred) ==
    \/ PrimitiveRaises(y_true, y_pred)
    \/ compute_covar_loss_raises(y_true, y_pred)
\* line 84
CoWassValue(alpha, wass_loss, covar_loss) == TAdd(TScale(alpha, wass_loss), covar_loss)

\* RandPairWassLoss.call, by the drawn rand_idx
\* t[:, :, :, idx:idx + 1]: one channel, or none when idx is past the last one
SliceChannel(t, idx) ==
    LET shp == [t.shape EXCEPT ![4] = IF idx < t.shape[4] THEN 1 ELSE 0]
    IN  Tensor(shp, [i \in Idx(shp) |-> t.val[[i EXCEPT ![4] = idx]]])
\* tf.squeeze(tf.einsum('bhwc,bhwd->bhwcd', t, comp), -1) for comp of one channel
EinsumSqueeze(t, comp) ==
    Tensor(t.shape, [i \in Idx(t.shape) |-> RMul(t.val[i], comp.val[[i EXCEPT ![4] = 0]])])
\* tf.concat([comp, co], axis=-1)
ConcatChannels(comp, co) ==
    LET shp == [co.shape EXCEPT ![4] = comp.shape[4] + co.shape[4]]
    IN  Tensor(shp, [i \in Idx(shp) |->
            IF i[4] < comp.shape[4] THEN comp.val[i]
            ELSE co.val[[i EXCEPT ![4] = i[4] - comp.shape[4]]]])
cat_feats(y, rand_idx) ==
    LET rand_comp == SliceChannel(y, rand_idx)
    IN  ConcatChannels(rand_comp, EinsumSqueeze(y, rand_comp))
\* line 94 with maxval taken as inclusive
RandIdxRange_inclusive(y_true) == 0..y_true.shape[4]

\* maxval=c of line 94: the indices tf.random.uniform can draw
RandIdxRange(y_true) == 0..(y_true.shape[4] - 1)
\* lines 93 and 95-96 need four axes
RandPairShapeRaises(y_true, y_pred) == Rank(y_true) # 4 \/ Rank(y_pred) # 4
\* the squeezes of lines 98-99 need the one sliced channel; line 104 needs equal shapes
RandPairRaises(y_true, y_pred, rand_idx) ==
    \/ SliceChannel(y_true, rand_idx).shape[4] # 1
    \/ SliceChannel(y_pred, rand_idx).shape[4] # 1
    \/ PrimitiveRaises(cat_feats(y_true, rand_idx), cat_feats(y_pred, rand_idx))
RandPairWassLoss(y_true, y_pred, rand_idx) ==
    compute_wass_dist(cat_feats(y_true, rand_idx), cat_feats(y_pred, rand_idx), 2)

(***************************************************************************)
(* The inputs: the pair of tensors the caller passes to every call.        *)
(***************************************************************************)
\* two rank-4 shapes (two positions / two channels), a rank-3 and a rank-2 shape
Shapes == {<<1, 1, 2, 1>>, <<1, 1, 1, 2>>, <<1, 2, 1>>, <<1, 2>>}
Values == {Rat(v) : v \in 0..MaxVal}
Tensors == UNION {{Tensor(shp, f) : f \in [Idx(shp) -> Values]} : shp \in Shapes}

\* the keys of loss_dict
LossNames == {"m1", "m2", "covar", "gram", "m3", "wass", "cowass", "rpwass"}
Threads == {1, 2}

NoValue == Tensor(<<0>>, <<>>)
NoAlpha == <<0, 0>>
Idle == [pc |-> "idle", step |-> 0, alpha |-> NoAlpha]

VARIABLES
    y_true, y_pred,  \* the two tensors every call is made with
    now,             \* what each loss computes from (y_true, y_pred)
    warmup_steps,    \* loss_dict['cowass'].warmup_steps
    curr_step,       \* loss_dict['cowass'].curr_step
    hist,            \* per CoWassLoss.call that reached line 83: curr_step read and alpha
    last,            \* the last operation: its name, outcome and returned value
    inflight,        \* per thread: its CoWassLoss.call between line 84 and line 86
    overlapped       \* some CoWassLoss.call began while another was in flight

vars == <<y_true, y_pred, now, warmup_steps, curr_step, hist, last, inflight, overlapped>>

Returned(op, value) ==
    [op |-> op, status |-> "ok", value |-> value, alpha |-> NoAlpha, rand_idx |-> -1, aug |-> <<>>]
Raised(op) ==
    [op |-> op, status |-> "error", value |-> NoValue, alpha |-> NoAlpha, rand_idx |-> -1, aug |-> <<>>]

\* what a call of each loss does on the inputs (y_true, y_pred)
m1_call(yt, yp) ==
    IF FirstMomentRaises(yt, yp) THEN Raised("m1")
    ELSE Returned("m1", FirstMomentLoss(yt, yp))
m2_call(yt, yp) ==
    IF SecondMomentRaises(yt, yp) THEN Raised("m2")
    ELSE Returned("m2", SecondMomentLoss(yt, yp))
covar_call(yt, yp) ==
    IF CovarRaises(yt, yp) THEN Raised("covar")
    ELSE Returned("covar", CovarLoss(yt, yp))
gram_call(yt, yp) ==
    IF GramianRaises(yt, yp) THEN Raised("gram")
    ELSE Returned("gram", GramianLoss(yt, yp))
m3_call(yt, yp) ==
    IF ThirdMomentRaises(yt, yp) THEN Raised("m3")
    ELSE Returned("m3", ThirdMomentLoss(yt, yp))
wass_call(yt, yp) ==
    IF WassRaises(yt, yp) THEN Raised("wass")
    ELSE Returned("wass", WassLoss(yt, yp))
\* RandPairWassLoss.call once rand_idx is drawn
rpwass_call(yt, yp, rand_idx) ==
    IF SliceChannel(yt, rand_idx).shape[4] # 1 \/ SliceChannel(yp, rand_idx).shape[4] # 1
    THEN [Raised("rpwass") EXCEPT !.rand_idx = rand_idx]
    ELSE IF RandPairRaises(yt, yp, rand_idx)
    THEN [Raised("rpwass") EXCEPT !.rand_idx = rand_idx,
             !.aug = <<cat_feats(yt, rand_idx), cat_feats(yp, rand_idx)>>]
    ELSE [Returned("rpwass", RandPairWassLoss(yt, yp, rand_idx))
             EXCEPT !.rand_idx = rand_idx,
                    !.aug = <<cat_feats(yt, rand_idx), cat_feats(yp, rand_idx)>>]
\* lines 80-81 of CoWassLoss.call
cowass_parts(yt, yp) ==
    IF CoWassRaises(yt, yp) THEN [raises |-> TRUE, wass_loss |-> NoValue, covar_loss |-> NoValue]
    ELSE [raises |-> FALSE, wass_loss |-> compute_wass_dist(yt, yp, 2),
          covar_loss |-> compute_covar_loss(yt, yp)]

\* Every call above on the inputs (yt, yp).  The values depend on the inputs
\* alone, so they are evaluated when the inputs are bound.
on_inputs(yt, yp) ==
    [m1 |-> m1_call(yt, yp), m2 |-> m2_call(yt, yp), covar |-> covar_call(yt, yp),
     gram |-> gram_call(yt, yp), m3 |-> m3_call(yt, yp), wass |-> wass_call(yt, yp),
     rpwass |-> IF RandPairShapeRaises(yt, yp) THEN <<>>
                ELSE [rand_idx \in RandIdxRange(yt) |-> rpwass_call(yt, yp, rand_idx)],
     cowass |-> cowass_parts(yt, yp)]

\* CoWassLoss.__init__ with warmup_steps initialised to 1
Init_warmup_one ==
    /\ y_true \in Tensors
    /\ y_pred \in Tensors
    /\ now = on_inputs(y_true, y_pred)
    /\ warmup_steps = 1
    /\ curr_step = 0
    /\ hist = <<>>
    /\ last = [Returned("init", NoValue) EXCEPT !.status = "none"]
    /\ inflight = [t \in Threads |-> Idle]
    /\ overlapped = FALSE

\* CoWassLoss.__init__ for the instance in loss_dict, before any call
Init ==
    /\ y_true \in Tensors
    /\ y_pred \in Tensors
    /\ now = on_inputs(y_true, y_pred)
    /\ warmup_steps = 0
    /\ curr_step = 0
    /\ hist = <<>>
    /\ last = [Returned("init", NoValue) EXCEPT !.status = "none"]
    /\ inflight = [t \in Threads |-> Idle]
    /\ overlapped = FALSE

\* the same, with warmup_steps set by the configuring caller before the first call
InitConfigured ==
    /\ y_true \in Tensors
    /\ y_pred \in Tensors
    /\ now = on_inputs(y_true, y_pred)
    /\ warmup_steps \in -1..MaxWarmup
    /\ curr_step = 0
    /\ hist = <<>>
    /\ last = [Returned("init", NoValue) EXCEPT !.status = "none"]
    /\ inflight = [t \in Threads |-> Idle]
    /\ overlapped = FALSE

Frame == UNCHANGED <<y_true, y_pred, now, warmup_steps, curr_step, hist, inflight, overlapped>>

call_m1 == last' = now.m1 /\ Frame

call_m2 == last' = now.m2 /\ Frame

call_covar == last' = now.covar /\ Frame

call_gram == last' = now.gram /\ Frame

call_m3 == last' = now.m3 /\ Frame

\* WassLoss.call counting its calls in the combiner's curr_step
call_wass_counting ==
    /\ last' = now.wass
    /\ curr_step < MaxCalls
    /\ curr_step' = curr_step + 1
    /\ UNCHANGED <<y_true, y_pred, now, warmup_steps, hist, inflight, overlapped>>

call_wass == last' = now.wass /\ Frame

\* RandPairWassLoss.call: a fresh rand_idx on every call
call_rpwass ==
    /\ IF RandPairShapeRaises(y_true, y_pred) THEN last' = Raised("rpwass")
       ELSE \E rand_idx \in RandIdxRange(y_true) : last' = now.rpwass[rand_idx]
    /\ Frame

\* CoWassLoss.get_alpha called on its own
call_get_alpha ==
    /\ last' = [Returned("get_alpha", NoValue) EXCEPT !.alpha = get_alpha(warmup_steps, curr_step)]
    /\ Frame

\* line 86 with assign in place of assign_add
AssignAdd_assign(curr) == 1
\* line 86 adding 2
AssignAdd_twice(curr) == F32AddOne(F32AddOne(curr))

\* the state of the counter after line 86
AssignAdd(curr) == F32AddOne(curr)

\* CoWassLoss.call, run from line 80 to line 87 with no other call in between
call_cowass ==
    /\ curr_step < MaxCalls
    /\ IF now.cowass.raises
       THEN /\ last' = Raised("cowass")
            /\ UNCHANGED <<curr_step, hist>>
       ELSE LET alpha == get_alpha(warmup_steps, curr_step)
            IN  /\ last' = [Returned("cowass", CoWassValue(alpha, now.cowass.wass_loss, now.cowass.covar_loss))
                               EXCEPT !.alpha = alpha]
                /\ hist' = Append(hist, [step |-> curr_step, alpha |-> alpha])
                /\ curr_step' = AssignAdd(curr_step)
    /\ UNCHANGED <<y_true, y_pred, now, warmup_steps, inflight, overlapped>>

Next ==
    \/ call_m1
    \/ call_m2
    \/ call_covar
    \/ call_gram
    \/ call_m3
    \/ call_wass
    \/ call_rpwass
    \/ call_get_alpha
    \/ call_cowass

\* the registry as losses.py constructs it
Spec == Init /\ [][Next]_vars

\* the registry with warmup_steps configured
SpecConfigured == InitConfigured /\ [][Next]_vars

(***************************************************************************)
(* Two threads calling the one CoWassLoss instance with no serialization:  *)
(* lines 80-84 (alpha read from curr_step) and line 86 (assign_add) are    *)
(* separate steps.                                                         *)
(***************************************************************************)
call_begin(t) ==
    /\ inflight[t].pc = "idle"
    /\ Len(hist) < MaxCalls
    /\ IF now.cowass.raises
       THEN /\ last' = Raised("cowass")
            /\ UNCHANGED <<hist, inflight, overlapped>>
       ELSE LET alpha == get_alpha(warmup_steps, curr_step)
            IN  /\ inflight' = [inflight EXCEPT ![t] = [pc |-> "mixed", step |-> curr_step, alpha |-> alpha]]
                /\ hist' = Append(hist, [step |-> curr_step, alpha |-> alpha])
                /\ overlapped' = (overlapped \/ \E u \in Threads \ {t} : inflight[u].pc = "mixed")
                /\ UNCHANGED last
    /\ UNCHANGED <<y_true, y_pred, now, warmup_steps, curr_step>>

call_finish(t) ==
    /\ inflight[t].pc = "mixed"
    /\ curr_step' = AssignAdd(curr_step)
    /\ last' = [Returned("cowass", CoWassValue(inflight[t].alpha, now.cowass.wass_loss, now.cowass.covar_loss))
                   EXCEPT !.alpha = inflight[t].alpha]
    /\ inflight' = [inflight EXCEPT ![t] = Idle]
    /\ UNCHANGED <<y_true, y_pred, now, warmup_steps, hist, overlapped>>

NextConcurrent == \E t \in Threads : call_begin(t) \/ call_finish(t)

SpecConcurrent == InitConfigured /\ [][NextConcurrent]_vars
(***************************************************************************)
(* Properties.                                                             *)
(***************************************************************************)
\* min(n / w, 1) for w > 0, and 1 for w <= 0
Ramp(n, w) == IF w <= 0 \/ n >= w THEN One ELSE Norm(n, w)
\* clamp(n / w, 0, 1) for w > 0
Clamp01(n, w) == IF n <= 0 THEN Zero ELSE IF n >= w THEN One ELSE Norm(n, w)
InUnitInterval(a) == a[2] > 0 /\ 0 <= a[1] /\ a[1] <= a[2]
Alphas == [n \in 1..Len(hist) |-> hist[n].alpha]

\* C1: with warmup_steps = W > 0 and calls made one after another, the n-th
\* call computes alpha = min((n-1)/W, 1) from the counter before the increment
\* and then adds 1; with W = 4 six calls give 0, 1/4, 1/2, 3/4, 1, 1 and leave
\* curr_step at 6.
C1_WarmupRamp ==
    warmup_steps > 0 =>
        /\ curr_step = Len(hist)
        /\ \A n \in 1..Len(hist) :
              /\ hist[n].step = n - 1
              /\ hist[n].alpha = Ramp(n - 1, warmup_steps)
        /\ (warmup_steps = 4 /\ Len(hist) = 6) =>
              /\ Alphas = <<<<0, 1>>, <<1, 4>>, <<1, 2>>, <<3, 4>>, <<1, 1>>, <<1, 1>>>>
              /\ curr_step = 6
C1_Witness ==
    /\ warmup_steps = 4
    /\ Len(hist) = 6
    /\ curr_step = 6
    /\ last.op = "cowass"
    /\ last.status = "ok"

C3_AlphaInUnitInterval ==
    /\ last.op = "get_alpha" =>
          /\ InUnitInterval(last.alpha)
          /\ last.alpha = IF warmup_steps <= 0 THEN One
                          ELSE Clamp01(curr_step, warmup_steps)
    /\ \A n \in 1..Len(hist) : InUnitInterval(hist[n].alpha)
C3_Witness ==
    /\ last.op = "get_alpha"
    /\ warmup_steps > 0
    /\ 0 < curr_step
    /\ curr_step < warmup_steps
    /\ last.alpha = Norm(curr_step, warmup_steps)

\* C4: with warmup_steps <= 0 alpha is 1 on every call, whatever curr_step
\* is, and each call returns transport + covariance.
C4_NoRampWhenDisabled ==
    warmup_steps <= 0 =>
        /\ \A n \in 1..Len(hist) : hist[n].alpha = One
        /\ last.op = "get_alpha" => last.alpha = One
        /\ (last.op = "cowass" /\ last.status = "ok") =>
              /\ last.alpha = One
              /\ last.value = TAdd(now.cowass.wass_loss, now.cowass.covar_loss)
C4_Witness ==
    /\ warmup_steps <= 0
    /\ curr_step >= 2
    /\ last.op = "cowass"
    /\ last.status = "ok"
    /\ ~IsZeroTensor(now.cowass.wass_loss)

\* the losses other than the combiner
StatelessNames == LossNames \ {"cowass"}
DeterministicNames == StatelessNames \ {"rpwass"}

\* C5 as claimed: a call of m1, m2, covar, gram, m3, wass or rpwass touches no
\* state that outlives it, so it leaves the combiner's counters alone and
\* calling it again on the same inputs returns the same result.
C5_AllStatelessPure ==
    [][last'.op \in StatelessNames =>
          /\ UNCHANGED <<warmup_steps, curr_step>>
          /\ last.op = last'.op => (last'.status = last.status /\ last'.value = last.value)]_vars
\* C5 amended: every one of the seven leaves the combiner's counters alone;
\* m1, m2, covar, gram, m3 and wass return the same result whenever they are
\* called again on the same inputs; rpwass's result also depends on the index
\* it draws from the process-level random generator.
C5_StatelessExceptRandomDraw ==
    [][last'.op \in StatelessNames =>
          /\ UNCHANGED <<warmup_steps, curr_step>>
          /\ last'.op \in DeterministicNames =>
                /\ last'.rand_idx = -1
                /\ last' = now[last'.op]
                /\ last.op = last'.op => (last'.status = last.status /\ last'.value = last.value)
          /\ last'.op = "rpwass" =>
                (last'.rand_idx # -1 => last' = now.rpwass[last'.rand_idx])]_vars
C5_Witness ==
    /\ last.op \in DeterministicNames
    /\ last.status = "ok"
    /\ curr_step >= 2
    /\ ~RandPairShapeRaises(y_true, y_pred)
    /\ \E i, j \in DOMAIN now.rpwass :
          /\ now.rpwass[i].status = "ok"
          /\ now.rpwass[j].status = "ok"
          /\ now.rpwass[i].value # now.rpwass[j].value

\* aug is y with the channel idx in front of the C products y_c * y_idx
AugmentedFrom(aug, y, idx) ==
    /\ aug.shape = [y.shape EXCEPT ![4] = y.shape[4] + 1]
    /\ \A i \in Idx(y.shape) :
          /\ aug.val[[i EXCEPT ![4] = 0]] = y.val[[i EXCEPT ![4] = idx]]
          /\ aug.val[[i EXCEPT ![4] = i[4] + 1]] = RMul(y.val[i], y.val[[i EXCEPT ![4] = idx]])

\* C6: on two inputs of one shape (B, H, W, C), C >= 1, the index that
\* RandPairWassLoss draws lies in 0..C-1 and both augmented tensors have
\* shape (B, H, W, C+1): the drawn channel, then the C products with it.
C6_AugmentedShape ==
    (last.op = "rpwass" /\ Rank(y_true) = 4 /\ y_pred.shape = y_true.shape) =>
        /\ last.rand_idx \in 0..(y_true.shape[4] - 1)
        /\ Len(last.aug) = 2
        /\ AugmentedFrom(last.aug[1], y_true, last.rand_idx)
        /\ AugmentedFrom(last.aug[2], y_pred, last.rand_idx)
C6_Witness ==
    /\ last.op = "rpwass"
    /\ y_true.shape = <<1, 1, 1, 2>>
    /\ y_pred.shape = y_true.shape
    /\ last.rand_idx = 1
    /\ last.aug[1].shape = <<1, 1, 1, 3>>
    /\ last.aug[2].shape = <<1, 1, 1, 3>>

IsZeroValue(op, v) == IF op = "m3" THEN ThirdMomentIsZero(v) ELSE IsZeroTensor(v)

\* C7: every loss of the registry returns 0 on (X, X); cowass for every alpha,
\* rpwass for every drawn channel.
C7_IdentityIsZero ==
    (y_true = y_pred /\ last.op \in LossNames) =>
        /\ Rank(y_true) = 4 => last.status = "ok"
        /\ last.status = "ok" => IsZeroValue(last.op, last.value)
C7_Witness ==
    /\ y_true = y_pred
    /\ ~IsZeroTensor(y_true)
    /\ last.op = "cowass"
    /\ last.status = "ok"
    /\ last.alpha \notin {Zero, One}

\* an input of rank other than 4, or two inputs of different shapes
Malformed(yt, yp) == Rank(yt) # 4 \/ Rank(yp) # 4 \/ yt.shape # yp.shape

\* C8: a call of any loss on malformed inputs ends in an error and returns
\* no loss value.
C8_MalformedRaises ==
    (last.op \in LossNames /\ Malformed(y_true, y_pred)) => last.status = "error"

\* C9: when the calls on one CoWassLoss do not overlap, every call reads its
\* own curr_step and the alphas follow the ramp; two overlapping calls can
\* read the same curr_step and leave the ramp.
C9_SerializedFollowsRamp ==
    ~overlapped =>
        /\ \A m, n \in 1..Len(hist) : m # n => hist[m].step # hist[n].step
        /\ \A n \in 1..Len(hist) : hist[n].alpha = Ramp(n - 1, warmup_steps)
C9_Witness ==
    /\ overlapped
    /\ warmup_steps > 0
    /\ \E m, n \in 1..Len(hist) :
          /\ m < n
          /\ hist[m].step = hist[n].step
          /\ hist[n].alpha = hist[m].alpha
          /\ hist[n].alpha # Ramp(n - 1, warmup_steps)

\* C10: the registry's CoWassLoss is built with warmup_steps = 0 and
\* curr_step = 0 and nothing writes warmup_steps: it stays 0, alpha is 1 from
\* the first call on, and curr_step counts the completed calls.
C10_RegistryNeverRamps ==
    /\ warmup_steps = 0
    /\ curr_step = Len(hist)
    /\ \A n \in 1..Len(hist) : hist[n].alpha = One /\ hist[n].step = n - 1
    /\ last.op \in {"get_alpha", "cowass"} /\ last.status = "ok" => last.alpha = One
C10_Witness ==
    /\ warmup_steps = 0
    /\ curr_step >= 3
    /\ last.op = "cowass"
    /\ last.status = "ok"
    /\ last.alpha = One
====
